---- MODULE Spec2Model ----
(***************************************************************************)
(* A model of the SCP wiki scraper: the field parser of scp_parser.py      *)
(* (key normalisation, value cleaning, sentence de-duplication, the block  *)
(* cursor of parse_page_content, the validator) and the concurrent batch   *)
(* of temp_scraper.py (series-page cache, scrape_scp, the drain loop).     *)
(*                                                                         *)
(* A Python str is a sequence of code points.  An ASCII code point is the  *)
(* one-character string itself; any other code point is named by its       *)
(* number, "u" followed by four hex digits ("uFF1A" is the full-width      *)
(* colon, "u3002" the ideographic full stop, "u63CF" "u8FF0" the label     *)
(* miao-shu, "description").                                               *)
(***************************************************************************)
EXTENDS Integers, Sequences, FiniteSets, TLC

(***************************************************************************)
(* Code points and the str methods the program uses.                       *)
(***************************************************************************)
UpperCase ==
   <<"A", "B", "C", "D", "E", "F", "G", "H", "I", "J", "K", "L", "M",
     "N", "O", "P", "Q", "R", "S", "T", "U", "V", "W", "X", "Y", "Z">>

LowerCase ==
   <<"a", "b", "c", "d", "e", "f", "g", "h", "i", "j", "k", "l", "m",
     "n", "o", "p", "q", "r", "s", "t", "u", "v", "w", "x", "y", "z">>

Digits ==
   <<"0", "1", "2", "3", "4", "5", "6", "7", "8", "9">>

\* The CJK ideographs (U+4E00..U+9FFF) that occur in the program's tables
\* and in the modelled pages.
Ideographs ==
   { "u4E8B", "u4EF6", "u5185", "u5220", "u5386", "u53D1", "u53F2", "u53F7", "u5907", "u59CB",
     "u5B9E", "u5BB9", "u5BE6", "u5BF9", "u5C0D", "u5DF2", "u5E8F", "u5F00", "u5F55", "u636E",
     "u63AA", "u63CF", "u6536", "u6570", "u6599", "u65B0", "u65BD", "u660E", "u66F4", "u675F",
     "u6B77", "u6B8A", "u6CE8", "u6D4B", "u7279", "u73B0", "u73FE", "u767C", "u76EE", "u7A0B",
     "u7B49", "u7D1A", "u7D50", "u7DE8", "u7EA7", "u7ED3", "u7F16", "u865F", "u8A18", "u8A2A",
     "u8A3B", "u8A73", "u8AC7", "u8BB0", "u8BBF", "u8BD5", "u8BF4", "u8C08", "u8C61", "u8D44",
     "u8F91", "u8FF0", "u9304", "u958B", "u9644", "u9664", "u9805", "u9879", "u9A57", "u9A8C" }

\* Python's str.isspace / regex \s: space, newline, tab, ideographic space.
WhiteSpace ==
   {" ", "\n", "\t", "u3000"}

IsSpace(c) ==
   c \in WhiteSpace

Letters ==
   {UpperCase[i] : i \in 1..26} \cup {LowerCase[i] : i \in 1..26}

DigitSet ==
   {Digits[i] : i \in 1..10}

\* regex \w (Unicode): letters, digits, underscore; ideographs are letters.
WordChars ==
   Letters \cup DigitSet \cup {"_"} \cup Ideographs

IsWord(c) ==
   c \in WordChars

IsDigit(c) ==
   c \in DigitSet

\* str.lower on one code point: only the cased letters change.
LowerOf ==
   [u \in {UpperCase[i] : i \in 1..26} |->
       LowerCase[CHOOSE i \in 1..26 : UpperCase[i] = u]]

Lower(c) ==
   IF c \in DOMAIN LowerOf THEN LowerOf[c] ELSE c

LowerStr(s) ==
   [i \in 1..Len(s) |-> Lower(s[i])]

\* s[n:] of Python.
DropFirst(s, n) ==
   IF n >= Len(s) THEN <<>> ELSE SubSeq(s, n + 1, Len(s))

LStripSet(s, cs) ==
   IF \A i \in 1..Len(s) : s[i] \in cs
   THEN <<>>
   ELSE LET k == CHOOSE i \in 1..Len(s) :
                    s[i] \notin cs /\ \A j \in 1..(i - 1) : s[j] \in cs
        IN  SubSeq(s, k, Len(s))

RStripSet(s, cs) ==
   IF \A i \in 1..Len(s) : s[i] \in cs
   THEN <<>>
   ELSE LET k == CHOOSE i \in 1..Len(s) :
                    s[i] \notin cs /\ \A j \in (i + 1)..Len(s) : s[j] \in cs
        IN  SubSeq(s, 1, k)

\* str.strip()
Strip(s) ==
   RStripSet(LStripSet(s, WhiteSpace), WhiteSpace)

\* s.startswith(p)
StartsWith(s, p) ==
   Len(p) <= Len(s) /\ SubSeq(s, 1, Len(p)) = p

\* p in s
Contains(s, p) ==
   \E i \in 0..(Len(s) - Len(p)) : SubSeq(s, i + 1, i + Len(p)) = p

\* s.split(sep) for a one-code-point separator.
RECURSIVE Split(_, _)
Split(s, sep) ==
   IF \A i \in 1..Len(s) : s[i] # sep
   THEN <<s>>
   ELSE LET k == CHOOSE i \in 1..Len(s) :
                    s[i] = sep /\ \A j \in 1..(i - 1) : s[j] # sep
        IN  <<SubSeq(s, 1, k - 1)>> \o Split(DropFirst(s, k), sep)

\* sep.join(parts)
RECURSIVE Join(_, _)
Join(parts, sep) ==
   IF parts = <<>> THEN <<>>
   ELSE IF Len(parts) = 1 THEN parts[1]
   ELSE parts[1] \o sep \o Join(Tail(parts), sep)

\* str(n) for n >= 0.
RECURSIVE Str(_)
Str(n) ==
   IF n < 10 THEN <<Digits[n + 1]>> ELSE Str(n \div 10) \o <<Digits[(n % 10) + 1]>>

\* s.zfill(w)
RECURSIVE ZFill(_, _)
ZFill(s, w) ==
   IF Len(s) >= w THEN s ELSE ZFill(<<"0">> \o s, w)

(***************************************************************************)
(* scp_parser.py: the tables of SCPParser.                                 *)
(***************************************************************************)
FIELD_MAPPING ==
   <<
      <<<<"u9879", "u76EE", "u7F16", "u53F7">>, <<"i", "d">>>>,
      <<<<"u9805", "u76EE", "u7DE8", "u865F">>, <<"i", "d">>>>,
      <<<<"u7F16", "u53F7">>, <<"i", "d">>>>,
      <<<<"u7DE8", "u865F">>, <<"i", "d">>>>,
      <<<<"s", "c", "p", "u7F16", "u53F7">>, <<"i", "d">>>>,
      <<<<"s", "c", "p", "u7DE8", "u865F">>, <<"i", "d">>>>,
      <<<<"i", "t", "e", "m", " ", "#">>, <<"i", "d">>>>,
      <<<<"i", "t", "e", "m", " ", "n", "u", "m", "b", "e", "r">>, <<"i", "d">>>>,
      <<<<"u9879", "u76EE", "u7B49", "u7EA7">>, <<"c", "l", "a", "s", "s">>>>,
      <<<<"u9805", "u76EE", "u7B49", "u7D1A">>, <<"c", "l", "a", "s", "s">>>>,
      <<<<"u7B49", "u7EA7">>, <<"c", "l", "a", "s", "s">>>>,
      <<<<"u7B49", "u7D1A">>, <<"c", "l", "a", "s", "s">>>>,
      <<<<"u5BF9", "u8C61", "u7B49", "u7EA7">>, <<"c", "l", "a", "s", "s">>>>,
      <<<<"u5C0D", "u8C61", "u7B49", "u7D1A">>, <<"c", "l", "a", "s", "s">>>>,
      <<<<"o", "b", "j", "e", "c", "t", " ", "c", "l", "a", "s", "s">>, <<"c", "l", "a", "s", "s">>>>,
      <<<<"c", "l", "a", "s", "s", "i", "f", "i", "c", "a", "t", "i", "o", "n">>, <<"c", "l", "a", "s", "s">>>>,
      <<<<"u7279", "u6B8A", "u6536", "u5BB9", "u63AA", "u65BD">>, <<"c", "o", "n", "t", "a", "i", "n", "m", "e", "n", "t">>>>,
      <<<<"u7279", "u6B8A", "u6536", "u5BB9", "u7A0B", "u5E8F">>, <<"c", "o", "n", "t", "a", "i", "n", "m", "e", "n", "t">>>>,
      <<<<"u6536", "u5BB9", "u63AA", "u65BD">>, <<"c", "o", "n", "t", "a", "i", "n", "m", "e", "n", "t">>>>,
      <<<<"u6536", "u5BB9", "u7A0B", "u5E8F">>, <<"c", "o", "n", "t", "a", "i", "n", "m", "e", "n", "t">>>>,
      <<<<"u6536", "u5BB9">>, <<"c", "o", "n", "t", "a", "i", "n", "m", "e", "n", "t">>>>,
      <<<<"s", "p", "e", "c", "i", "a", "l", " ", "c", "o", "n", "t", "a", "i", "n", "m", "e", "n", "t", " ", "p", "r", "o", "c", "e", "d", "u", "r", "e", "s">>, <<"c", "o", "n", "t", "a", "i", "n", "m", "e", "n", "t">>>>,
      <<<<"c", "o", "n", "t", "a", "i", "n", "m", "e", "n", "t">>, <<"c", "o", "n", "t", "a", "i", "n", "m", "e", "n", "t">>>>,
      <<<<"c", "o", "n", "t", "a", "i", "n", "m", "e", "n", "t", " ", "p", "r", "o", "c", "e", "d", "u", "r", "e", "s">>, <<"c", "o", "n", "t", "a", "i", "n", "m", "e", "n", "t">>>>,
      <<<<"u63CF", "u8FF0">>, <<"d", "e", "s", "c", "r", "i", "p", "t", "i", "o", "n">>>>,
      <<<<"u9805", "u76EE", "u63CF", "u8FF0">>, <<"d", "e", "s", "c", "r", "i", "p", "t", "i", "o", "n">>>>,
      <<<<"u9879", "u76EE", "u63CF", "u8FF0">>, <<"d", "e", "s", "c", "r", "i", "p", "t", "i", "o", "n">>>>,
      <<<<"u8BF4", "u660E">>, <<"d", "e", "s", "c", "r", "i", "p", "t", "i", "o", "n">>>>,
      <<<<"u8A73", "u8FF0">>, <<"d", "e", "s", "c", "r", "i", "p", "t", "i", "o", "n">>>>,
      <<<<"d", "e", "s", "c", "r", "i", "p", "t", "i", "o", "n">>, <<"d", "e", "s", "c", "r", "i", "p", "t", "i", "o", "n">>>>,
      <<<<"u9644", "u5F55">>, <<"a", "d", "d", "e", "n", "d", "u", "m">>>>,
      <<<<"u9644", "u9304">>, <<"a", "d", "d", "e", "n", "d", "u", "m">>>>,
      <<<<"u5B9E", "u9A8C", "u8BB0", "u5F55">>, <<"e", "x", "p", "e", "r", "i", "m", "e", "n", "t", "_", "l", "o", "g">>>>,
      <<<<"u5BE6", "u9A57", "u8A18", "u9304">>, <<"e", "x", "p", "e", "r", "i", "m", "e", "n", "t", "_", "l", "o", "g">>>>,
      <<<<"u8BBF", "u8C08", "u8BB0", "u5F55">>, <<"i", "n", "t", "e", "r", "v", "i", "e", "w", "_", "l", "o", "g">>>>,
      <<<<"u8A2A", "u8AC7", "u8A18", "u9304">>, <<"i", "n", "t", "e", "r", "v", "i", "e", "w", "_", "l", "o", "g">>>>,
      <<<<"u4E8B", "u4EF6", "u8BB0", "u5F55">>, <<"i", "n", "c", "i", "d", "e", "n", "t", "_", "l", "o", "g">>>>,
      <<<<"u4E8B", "u4EF6", "u8A18", "u9304">>, <<"i", "n", "c", "i", "d", "e", "n", "t", "_", "l", "o", "g">>>>,
      <<<<"u66F4", "u65B0", "u8BB0", "u5F55">>, <<"u", "p", "d", "a", "t", "e", "_", "l", "o", "g">>>>,
      <<<<"u66F4", "u65B0", "u8A18", "u9304">>, <<"u", "p", "d", "a", "t", "e", "_", "l", "o", "g">>>>,
      <<<<"u5386", "u53F2">>, <<"h", "i", "s", "t", "o", "r", "y">>>>,
      <<<<"u6B77", "u53F2">>, <<"h", "i", "s", "t", "o", "r", "y">>>>,
      <<<<"u53D1", "u73B0">>, <<"d", "i", "s", "c", "o", "v", "e", "r", "y">>>>,
      <<<<"u767C", "u73FE">>, <<"d", "i", "s", "c", "o", "v", "e", "r", "y">>>>,
      <<<<"u8A3B">>, <<"n", "o", "t", "e", "s">>>>,
      <<<<"u6CE8">>, <<"n", "o", "t", "e", "s">>>>,
      <<<<"u5907", "u6CE8">>, <<"n", "o", "t", "e", "s">>>>,
      <<<<"u8A18", "u9304", "u958B", "u59CB">>, <<"r", "e", "c", "o", "r", "d", "_", "s", "t", "a", "r", "t">>>>,
      <<<<"u8BB0", "u5F55", "u5F00", "u59CB">>, <<"r", "e", "c", "o", "r", "d", "_", "s", "t", "a", "r", "t">>>>,
      <<<<"u8A18", "u9304", "u7D50", "u675F">>, <<"r", "e", "c", "o", "r", "d", "_", "e", "n", "d">>>>,
      <<<<"u8BB0", "u5F55", "u7ED3", "u675F">>, <<"r", "e", "c", "o", "r", "d", "_", "e", "n", "d">>>>
   >>

STANDARD_FIELDS ==
   <<
      <<"i", "d">>,
      <<"c", "l", "a", "s", "s">>,
      <<"d", "e", "s", "c", "r", "i", "p", "t", "i", "o", "n">>,
      <<"c", "o", "n", "t", "a", "i", "n", "m", "e", "n", "t">>,
      <<"a", "d", "d", "e", "n", "d", "u", "m">>,
      <<"e", "x", "p", "e", "r", "i", "m", "e", "n", "t", "_", "l", "o", "g">>,
      <<"i", "n", "t", "e", "r", "v", "i", "e", "w", "_", "l", "o", "g">>,
      <<"i", "n", "c", "i", "d", "e", "n", "t", "_", "l", "o", "g">>,
      <<"u", "p", "d", "a", "t", "e", "_", "l", "o", "g">>,
      <<"h", "i", "s", "t", "o", "r", "y">>,
      <<"d", "i", "s", "c", "o", "v", "e", "r", "y">>,
      <<"n", "o", "t", "e", "s">>,
      <<"e", "r", "r", "o", "r">>,
      <<"w", "a", "r", "n", "i", "n", "g">>,
      <<"s", "e", "r", "i", "e", "s">>,
      <<"n", "a", "m", "e">>,
      <<"i", "m", "a", "g", "e", "s">>,
      <<"t", "a", "g", "s">>
   >>

FULLWIDTH_COLON == "uFF1A"
FULL_STOP == "u3002"
LAQUO == "u00AB"
LSAQUO == "u2039"

\* The alternatives of RE_REDACT, in the order of the pattern, case-folded
\* (the pattern is compiled with IGNORECASE).
RE_REDACT ==
   << <<"[", "u6570", "u636E", "u5220", "u9664", "]">>,
      <<"[", "u8D44", "u6599", "u5220", "u9664", "]">>,
      <<"[", "u5DF2", "u7F16", "u8F91", "]">>,
      <<"[", "u5220", "u9664", "]">>,
      <<"[", "r", "e", "d", "a", "c", "t", "e", "d", "]">>,
      <<"[", "d", "a", "t", "a", " ", "e", "x", "p", "u", "n", "g", "e", "d", "]">> >>

REDACTED ==
   <<"[", "R", "E", "D", "A", "C", "T", "E", "D", "]">>

ColonChars ==
   {FULLWIDTH_COLON, ":"}

(***************************************************************************)
(* SCPParser.normalize_key                                                 *)
(***************************************************************************)
\* pattern.lower() of every pattern of FIELD_MAPPING, in dict order.
LoweredPatterns ==
   [i \in 1..Len(FIELD_MAPPING) |-> LowerStr(FIELD_MAPPING[i][1])]

\* The first pattern of FIELD_MAPPING whose lower-cased text equals
\* key_lower, or 0.
MappingIndex(key_lower) ==
   IF \E i \in 1..Len(FIELD_MAPPING) : LoweredPatterns[i] = key_lower
   THEN CHOOSE i \in 1..Len(FIELD_MAPPING) :
           /\ LoweredPatterns[i] = key_lower
           /\ \A j \in 1..(i - 1) : LoweredPatterns[j] # key_lower
   ELSE 0

\* re.sub(r'[^\w U+4E00-U+9FFF]', '_', key).lower()
FallbackKey(key) ==
   LowerStr([i \in 1..Len(key) |-> IF IsWord(key[i]) THEN key[i] ELSE "_"])

normalize_key(raw) ==
   IF raw = <<>> THEN <<>>
   ELSE LET key       == RStripSet(Strip(raw), ColonChars)
            key_lower == LowerStr(key)
            m         == MappingIndex(key_lower)
        IN  IF m # 0 THEN FIELD_MAPPING[m][2] ELSE FallbackKey(key)

(***************************************************************************)
(* SCPParser.clean_value                                                   *)
(***************************************************************************)
\* The first alternative of RE_REDACT that matches at the start of s, or 0.
RedactMatch(s) ==
   IF \E i \in 1..Len(RE_REDACT) : StartsWith(LowerStr(s), RE_REDACT[i])
   THEN CHOOSE i \in 1..Len(RE_REDACT) :
           /\ StartsWith(LowerStr(s), RE_REDACT[i])
           /\ \A j \in 1..(i - 1) : ~StartsWith(LowerStr(s), RE_REDACT[j])
   ELSE 0

\* RE_REDACT.sub('[REDACTED]', s): leftmost non-overlapping matches.
RECURSIVE RedactSub(_)
RedactSub(s) ==
   IF s = <<>> THEN <<>>
   ELSE LET m == RedactMatch(s)
        IN  IF m # 0
            THEN REDACTED \o RedactSub(DropFirst(s, Len(RE_REDACT[m])))
            ELSE <<Head(s)>> \o RedactSub(Tail(s))

\* RE_WS.sub(' ', s): every maximal run of whitespace becomes one space.
RECURSIVE WsSub(_)
WsSub(s) ==
   IF s = <<>> THEN <<>>
   ELSE IF IsSpace(Head(s))
        THEN <<" ">> \o WsSub(LStripSet(s, WhiteSpace))
        ELSE <<Head(s)>> \o WsSub(Tail(s))

\* RE_COLON_PREFIX.sub('', s): ^[colon]\s* matches once, at the start only.
ColonPrefixSub(s) ==
   IF s # <<>> /\ s[1] \in ColonChars
   THEN LStripSet(Tail(s), WhiteSpace)
   ELSE s

clean_value(value) ==
   IF value = <<>> THEN <<>>
   ELSE Strip(ColonPrefixSub(WsSub(RedactSub(value))))

(***************************************************************************)
(* SCPParser.deduplicate_content                                           *)
(***************************************************************************)
\* [s.strip() for s in content.split(terminator) if s.strip()]
RECURSIVE StripNonEmpty(_)
StripNonEmpty(parts) ==
   IF parts = <<>> THEN <<>>
   ELSE LET s == Strip(Head(parts))
        IN  IF s # <<>>
            THEN <<s>> \o StripNonEmpty(Tail(parts))
            ELSE StripNonEmpty(Tail(parts))

\* KeepSentence with the length test off by one (a 5-code-point fragment
\* passes).
KeepSentenceOffByOne(sentence, unique_sentences) ==
   /\ \A i \in 1..Len(unique_sentences) : unique_sentences[i] # sentence
   /\ Len(sentence) >= 5

\* The sentence survives when it was not kept before and is long enough.
KeepSentence(sentence, unique_sentences) ==
   /\ \A i \in 1..Len(unique_sentences) : unique_sentences[i] # sentence
   /\ Len(sentence) > 5

\* The loop over sentences; unique_sentences doubles as the seen set (a
\* sentence enters both together).
RECURSIVE UniqueSentences(_, _)
UniqueSentences(sentences, unique_sentences) ==
   IF sentences = <<>> THEN unique_sentences
   ELSE UniqueSentences(Tail(sentences),
                        IF KeepSentence(Head(sentences), unique_sentences)
                        THEN Append(unique_sentences, Head(sentences))
                        ELSE unique_sentences)

deduplicate_content(content) ==
   IF content = <<>> THEN content
   ELSE LET sentences == StripNonEmpty(Split(content, FULL_STOP))
            unique_sentences == UniqueSentences(sentences, <<>>)
        IN  Join(unique_sentences, <<FULL_STOP>>)
               \o (IF unique_sentences # <<>> THEN <<FULL_STOP>> ELSE <<>>)

(***************************************************************************)
(* Records.  A Python dict is the sequence of its <<key, value>> pairs in  *)
(* insertion order; a value is a str ([str |-> s]), an int ([int |-> n])   *)
(* or a list of str ([list |-> l]).                                        *)
(***************************************************************************)
K_id ==
   <<"i", "d">>

K_class ==
   <<"c", "l", "a", "s", "s">>

K_description ==
   <<"d", "e", "s", "c", "r", "i", "p", "t", "i", "o", "n">>

K_containment ==
   <<"c", "o", "n", "t", "a", "i", "n", "m", "e", "n", "t">>

K_more_info ==
   <<"m", "o", "r", "e", "_", "i", "n", "f", "o">>

K_error ==
   <<"e", "r", "r", "o", "r">>

K_warning ==
   <<"w", "a", "r", "n", "i", "n", "g">>

K_series ==
   <<"s", "e", "r", "i", "e", "s">>

K_name ==
   <<"n", "a", "m", "e">>

K_images ==
   <<"i", "m", "a", "g", "e", "s">>

K_tags ==
   <<"t", "a", "g", "s">>

K_validation_issues ==
   <<"v", "a", "l", "i", "d", "a", "t", "i", "o", "n", "_", "i", "s", "s", "u", "e", "s">>

StrVal(s) ==
   [str |-> s]

IntVal(n) ==
   [int |-> n]

ListVal(l) ==
   [list |-> l]

IsStr(v) ==
   DOMAIN v = {"str"}

\* Python truthiness of a value.
Truthy(v) ==
   IF DOMAIN v = {"str"} THEN v.str # <<>>
   ELSE IF DOMAIN v = {"int"} THEN v.int # 0
   ELSE v.list # <<>>

\* k in d
DictHas(d, k) ==
   \E i \in 1..Len(d) : d[i][1] = k

\* d[k]
DictGet(d, k) ==
   d[CHOOSE i \in 1..Len(d) : d[i][1] = k][2]

\* d[k] = v: an existing key keeps its place, a new key goes last.
DictSet(d, k, v) ==
   IF DictHas(d, k)
   THEN [i \in 1..Len(d) |-> IF d[i][1] = k THEN <<k, v>> ELSE d[i]]
   ELSE Append(d, <<k, v>>)

\* del d[k]
RECURSIVE DictDel(_, _)
DictDel(d, k) ==
   IF d = <<>> THEN <<>>
   ELSE IF Head(d)[1] = k THEN DictDel(Tail(d), k)
   ELSE <<Head(d)>> \o DictDel(Tail(d), k)

\* d.update(e)
RECURSIVE DictUpdate(_, _)
DictUpdate(d, e) ==
   IF e = <<>> THEN d
   ELSE DictUpdate(DictSet(d, Head(e)[1], Head(e)[2]), Tail(e))

Keys(d) ==
   {d[i][1] : i \in 1..Len(d)}

\* k not in d or not d[k]
MissingOrEmpty(d, k) ==
   ~DictHas(d, k) \/ ~Truthy(DictGet(d, k))

(***************************************************************************)
(* SCPParser.extract_id_from_url, ensure_required_fields,                  *)
(* categorize_fields                                                       *)
(***************************************************************************)
SCP_PREFIX ==
   <<"S", "C", "P", "-">>

SCP_TOKEN ==
   <<"s", "c", "p", "-">>

\* f"SCP-{scp_id:03d}"
FormatId(scp_id) ==
   SCP_PREFIX \o ZFill(Str(scp_id), 3)

\* r'scp-(\d+)' matches at offset i (0-based) of url, ignoring case.
TokenAt(url, i) ==
   /\ i + 5 <= Len(url)
   /\ LowerStr(SubSeq(url, i + 1, i + 4)) = SCP_TOKEN
   /\ IsDigit(url[i + 5])

\* The maximal run of digits at the start of s: group(1).
RECURSIVE DigitRun(_)
DigitRun(s) ==
   IF s # <<>> /\ IsDigit(Head(s)) THEN <<Head(s)>> \o DigitRun(Tail(s)) ELSE <<>>

extract_id_from_url(url) ==
   IF \E i \in 0..Len(url) : TokenAt(url, i)
   THEN LET k == CHOOSE i \in 0..Len(url) :
                    TokenAt(url, i) /\ \A j \in 0..(i - 1) : ~TokenAt(url, j)
        IN  SCP_PREFIX \o ZFill(DigitRun(DropFirst(url, k + 4)), 3)
   ELSE <<>>

\* The id that fills a missing or empty 'id'.
BackfillId(scp_id, url) ==
   IF url # <<>>
   THEN LET extracted_id == extract_id_from_url(url)
        IN  IF extracted_id # <<>> THEN extracted_id ELSE FormatId(scp_id)
   ELSE FormatId(scp_id)

\* for field in ['description', 'containment']: de-duplicate a str value.
DedupField(d, field) ==
   IF DictHas(d, field) /\ IsStr(DictGet(d, field))
   THEN DictSet(d, field, StrVal(deduplicate_content(DictGet(d, field).str)))
   ELSE d

ensure_required_fields(data, scp_id, url) ==
   LET withId == IF MissingOrEmpty(data, K_id)
                 THEN DictSet(data, K_id, StrVal(BackfillId(scp_id, url)))
                 ELSE data
   IN  DedupField(DedupField(withId, K_description), K_containment)

\* The second loop of categorize_fields: every key but 'more_info' is
\* normalised again and stored, later entries overwriting earlier ones.
RECURSIVE Flatten(_, _)
Flatten(data, result) ==
   IF data = <<>> THEN result
   ELSE Flatten(Tail(data),
                IF Head(data)[1] # K_more_info
                THEN DictSet(result, normalize_key(Head(data)[1]), Head(data)[2])
                ELSE result)

\* data.get('more_info', {}) is a dict for no value of this model (a value
\* is a str, an int or a list), so the first loop adds nothing.
categorize_fields(data) ==
   Flatten(data, <<>>)

(***************************************************************************)
(* SCPParser.parse_page_content.  An element is [text, has_strong,         *)
(* strong]: element.get_text(), whether element.find('strong') finds a     *)
(* tag, and that tag's get_text().  The cursor is [result, current_key,    *)
(* current_value]; current_key None and '' are both <<>> (the code only    *)
(* tests its truth).                                                       *)
(***************************************************************************)
\* self.stop_indicators[:2]
StopMarkers ==
   {LAQUO, LSAQUO}

\* IsStopBlock without the startswith test: a marker anywhere stops.
IsStopBlockAnywhere(element_text) ==
   \E m \in StopMarkers : Contains(element_text, <<m>>)

\* lines 205-207: the block ends the loop.
IsStopBlock(element_text) ==
   /\ \E m \in StopMarkers : Contains(element_text, <<m>>)
   /\ \E m \in StopMarkers : StartsWith(element_text, <<m>>)

\* FlushField that only tests the key (an empty value is stored too).
FlushFieldKeyOnly(cur) ==
   IF cur.current_key # <<>> /\ normalize_key(cur.current_key) # <<>>
   THEN DictSet(cur.result, normalize_key(cur.current_key),
                StrVal(clean_value(cur.current_value)))
   ELSE cur.result

\* lines 214-218 and 232-236: store the open field.
FlushField(cur) ==
   IF cur.current_key # <<>>
   THEN LET normalized_key == normalize_key(cur.current_key)
            cleaned_value  == clean_value(cur.current_value)
        IN  IF normalized_key # <<>> /\ cleaned_value # <<>>
            THEN DictSet(cur.result, normalized_key, StrVal(cleaned_value))
            ELSE cur.result
   ELSE cur.result

\* lines 212-223: a block with a strong tag.
LabelledStep(cur, element) ==
   LET element_text == Strip(element.text)
       key          == Strip(element.strong)
   IN  [result        |-> FlushField(cur),
        current_key   |-> key,
        current_value |-> Strip(DropFirst(element_text, Len(key)))]

\* lines 224-229: a block without one.
UnlabelledStep(cur, element) ==
   LET element_text == Strip(element.text)
   IN  IF cur.current_key # <<>>
       THEN [cur EXCEPT !.current_value =
                (IF @ # <<>> /\ @[Len(@)] # " " THEN @ \o <<" ">> ELSE @)
                   \o element_text]
       ELSE cur

\* Which branch of the loop body the block takes.
BlockKind(element) ==
   IF Strip(element.text) = <<>> THEN "empty"
   ELSE IF IsStopBlock(Strip(element.text)) THEN "stop"
   ELSE IF element.has_strong THEN "labelled"
   ELSE "unlabelled"

EmptyCursor ==
   [result |-> <<>>, current_key |-> <<>>, current_value |-> <<>>]

\* The for loop from element i on; a stop block breaks out of it.
RECURSIVE ParseLoop(_, _, _)
ParseLoop(elements, i, cur) ==
   IF i > Len(elements) THEN cur
   ELSE LET kind == BlockKind(elements[i])
        IN  IF kind = "stop" THEN cur
            ELSE ParseLoop(elements, i + 1,
                           IF kind = "labelled" THEN LabelledStep(cur, elements[i])
                           ELSE IF kind = "unlabelled" THEN UnlabelledStep(cur, elements[i])
                           ELSE cur)

\* lines 238-244: what happens to the field map after the last flush.
PostProcess(result, scp_id, url) ==
   categorize_fields(ensure_required_fields(result, scp_id, url))

parse_page_content(elements, scp_id, url) ==
   PostProcess(FlushField(ParseLoop(elements, 1, EmptyCursor)), scp_id, url)

(***************************************************************************)
(* SCPValidator.validate                                                   *)
(***************************************************************************)
REQUIRED_FIELDS ==
   <<K_id>>

RECOMMENDED_FIELDS ==
   <<K_class, K_containment, K_description>>

MSG_REQUIRED ==
   <<"u7F3A", "u5C11", "u5FC5", "u9700", "u5B57", "u6BB5", ":", " ">>

MSG_RECOMMENDED ==
   <<"u7F3A", "u5C11", "u63A8", "u8350", "u5B57", "u6BB5", ":", " ">>

\* MissingOf that only tests the key's presence (an empty value passes).
RECURSIVE MissingOfKeyOnly(_, _)
MissingOfKeyOnly(fields, data) ==
   IF fields = <<>> THEN <<>>
   ELSE (IF ~DictHas(data, Head(fields)) THEN <<Head(fields)>> ELSE <<>>)
           \o MissingOfKeyOnly(Tail(fields), data)

\* The fields of the list that are missing from data or empty, in order.
RECURSIVE MissingOf(_, _)
MissingOf(fields, data) ==
   IF fields = <<>> THEN <<>>
   ELSE (IF MissingOrEmpty(data, Head(fields)) THEN <<Head(fields)>> ELSE <<>>)
           \o MissingOf(Tail(fields), data)

\* One issue per missing required field, then one for the recommended ones.
Issues(data) ==
   LET missing_required    == MissingOf(REQUIRED_FIELDS, data)
       missing_recommended == MissingOf(RECOMMENDED_FIELDS, data)
   IN  [i \in 1..Len(missing_required) |-> MSG_REQUIRED \o missing_required[i]]
          \o (IF missing_recommended # <<>>
              THEN <<MSG_RECOMMENDED \o Join(missing_recommended, <<",", " ">>)>>
              ELSE <<>>)

validate(data) ==
   IF Issues(data) # <<>>
   THEN DictSet(data, K_validation_issues, ListVal(Issues(data)))
   ELSE data

(***************************************************************************)
(* State.                                                                  *)
(*   arg, ret, ret2, fn_pc      one call of a function of SCPParser or of  *)
(*                              SCPValidator, and a second call on its     *)
(*                              result                                     *)
(*   elements .. parsed         one run of parse_page_content              *)
(*   start_id .. main_pc        one run of the batch of temp_scraper.py:   *)
(*                              per task its position (task_pc), the       *)
(*                              listing content it got (content), the name *)
(*                              it resolved (scp_name), the answer to its  *)
(*                              document request (response) and its future;*)
(*                              the lru_cache of fetch_series_page and the *)
(*                              number of listing requests made per series *)
(*                              (fetches); the futures as_completed has    *)
(*                              still to yield (pending); db, failed_ids   *)
(***************************************************************************)
VARIABLES arg, ret, ret2, fn_pc,
          elements, scp_id, url, idx, result, current_key, current_value,
          parse_pc, parsed,
          start_id, end_id, max_workers, task_pc, series_cache, fetches,
          content, scp_name, response, future, pending, db, failed_ids,
          main_pc

fn_vars ==
   <<arg, ret, ret2, fn_pc>>

parse_vars ==
   <<elements, scp_id, url, idx, result, current_key, current_value,
     parse_pc, parsed>>

batch_vars ==
   <<start_id, end_id, max_workers, task_pc, series_cache, fetches,
     content, scp_name, response, future, pending, db, failed_ids,
     main_pc>>

vars ==
   <<arg, ret, ret2, fn_pc,
     elements, scp_id, url, idx, result, current_key, current_value,
     parse_pc, parsed,
     start_id, end_id, max_workers, task_pc, series_cache, fetches,
     content, scp_name, response, future, pending, db, failed_ids,
     main_pc>>

\* The parts of the state a run does not use.
FnIdle ==
   /\ arg = <<>>
   /\ ret = <<>>
   /\ ret2 = <<>>
   /\ fn_pc = "idle"

ParseIdle ==
   /\ elements = <<>>
   /\ scp_id = 0
   /\ url = <<>>
   /\ idx = 0
   /\ result = <<>>
   /\ current_key = <<>>
   /\ current_value = <<>>
   /\ parse_pc = "idle"
   /\ parsed = <<>>

BatchIdle ==
   /\ start_id = 0
   /\ end_id = 0
   /\ max_workers = 0
   /\ task_pc = <<>>
   /\ series_cache = <<>>
   /\ fetches = <<>>
   /\ content = <<>>
   /\ scp_name = <<>>
   /\ response = <<>>
   /\ future = <<>>
   /\ pending = {}
   /\ db = <<>>
   /\ failed_ids = <<>>
   /\ main_pc = "idle"

(***************************************************************************)
(* Inputs of the single-function runs: every concatenation of at most      *)
(* MaxParts fragments.                                                     *)
(***************************************************************************)
MaxParts ==
   3

\* All sequences over S of length at most n.
RECURSIVE SeqsUpTo(_, _)
SeqsUpTo(S, n) ==
   IF n = 0 THEN {<<>>}
   ELSE LET shorter == SeqsUpTo(S, n - 1)
        IN  shorter \cup {Append(s, x) : s \in shorter, x \in S}

\* The concatenation of a sequence of strings.
RECURSIVE Concat(_)
Concat(parts) ==
   IF parts = <<>> THEN <<>> ELSE Head(parts) \o Concat(Tail(parts))

TextsOver(fragments) ==
   {Concat(p) : p \in SeqsUpTo(fragments, MaxParts)}

(***************************************************************************)
(* One call of normalize_key on a raw label.                               *)
(***************************************************************************)
LabelFragments ==
   { <<"e", "r", "r", "o", "r">>,
     <<"C", "l", "a", "s", "s">>,
     <<"I", "t", "e", "m", " ", "#">>,
     <<"u63CF", "u8FF0">>,
     <<"n", "a", "m", "e">>,
     <<":">>,
     <<FULLWIDTH_COLON>>,
     <<" ">>,
     <<"-">> }

InitNormalize ==
   /\ arg \in TextsOver(LabelFragments)
   /\ ret = <<>>
   /\ ret2 = <<>>
   /\ fn_pc = "start"
   /\ ParseIdle
   /\ BatchIdle

CallNormalizeKey ==
   /\ fn_pc = "start"
   /\ ret' = normalize_key(arg)
   /\ fn_pc' = "once"
   /\ UNCHANGED <<arg, ret2, parse_vars, batch_vars>>

CallNormalizeKeyAgain ==
   /\ fn_pc = "once"
   /\ ret2' = normalize_key(ret)
   /\ fn_pc' = "twice"
   /\ UNCHANGED <<arg, ret, parse_vars, batch_vars>>

NextNormalize ==
   \/ CallNormalizeKey
   \/ CallNormalizeKeyAgain

SpecNormalize ==
   InitNormalize /\ [][NextNormalize]_vars

(***************************************************************************)
(* One call of clean_value on a raw value, and one on its result.          *)
(***************************************************************************)
ValueFragments ==
   { <<":">>,
     <<FULLWIDTH_COLON>>,
     <<" ">>,
     <<"\n">>,
     <<"x">>,
     <<"[", "D", "A", "T", "A">>,
     <<"E", "X", "P", "U", "N", "G", "E", "D", "]">>,
     <<"[", "u5220", "u9664", "]">> }

InitClean ==
   /\ arg \in TextsOver(ValueFragments)
   /\ ret = <<>>
   /\ ret2 = <<>>
   /\ fn_pc = "start"
   /\ ParseIdle
   /\ BatchIdle

CallCleanValue ==
   /\ fn_pc = "start"
   /\ ret' = clean_value(arg)
   /\ fn_pc' = "once"
   /\ UNCHANGED <<arg, ret2, parse_vars, batch_vars>>

CallCleanValueAgain ==
   /\ fn_pc = "once"
   /\ ret2' = clean_value(ret)
   /\ fn_pc' = "twice"
   /\ UNCHANGED <<arg, ret, parse_vars, batch_vars>>

NextClean ==
   \/ CallCleanValue
   \/ CallCleanValueAgain

SpecClean ==
   InitClean /\ [][NextClean]_vars

StandardFieldSet ==
   {STANDARD_FIELDS[i] : i \in 1..Len(STANDARD_FIELDS)}

\* The label, trimmed as normalize_key trims it, equals no pattern of the
\* synonym table (case-insensitively).
NoSynonym(label) ==
   \A i \in 1..Len(FIELD_MAPPING) :
      LoweredPatterns[i] # LowerStr(RStripSet(Strip(label), ColonChars))

\* C5: for every raw label that matches no entry of the synonym table, the
\* key normalize_key returns (the fallback key) is not a member of the
\* canonical field set STANDARD_FIELDS.
C5_FallbackNeverCanonical ==
   (fn_pc # "start" /\ NoSynonym(arg)) => ret \notin StandardFieldSet

\* C6: clean_value is idempotent: cleaning an already cleaned value returns
\* it unchanged.
C6_CleanValueIdempotent ==
   fn_pc = "twice" => ret2 = ret

(***************************************************************************)
(* One call of deduplicate_content.                                        *)
(***************************************************************************)
SentenceFragments ==
   { <<"a", "b", "c", "d", "e", "f", FULL_STOP>>,
     <<"u", "v", "w", "x", "y", "z", FULL_STOP>>,
     <<"a", "b", "c", "d", "e", FULL_STOP>>,
     <<"a", "b", "c", "d", "e", "f">>,
     <<" ">>,
     <<FULL_STOP>> }

InitDedup ==
   /\ arg \in TextsOver(SentenceFragments)
   /\ ret = <<>>
   /\ ret2 = <<>>
   /\ fn_pc = "start"
   /\ ParseIdle
   /\ BatchIdle

CallDeduplicateContent ==
   /\ fn_pc = "start"
   /\ ret' = deduplicate_content(arg)
   /\ fn_pc' = "once"
   /\ UNCHANGED <<arg, ret2, parse_vars, batch_vars>>

CallDeduplicateContentAgain ==
   /\ fn_pc = "once"
   /\ ret2' = deduplicate_content(ret)
   /\ fn_pc' = "twice"
   /\ UNCHANGED <<arg, ret, parse_vars, batch_vars>>

NextDedup ==
   \/ CallDeduplicateContent
   \/ CallDeduplicateContentAgain

SpecDedup ==
   InitDedup /\ [][NextDedup]_vars

\* The segments of a text: split on the terminator, each trimmed.
Segments(text) ==
   [i \in 1..Len(Split(text, FULL_STOP)) |-> Strip(Split(text, FULL_STOP)[i])]

\* Segment i of the text is a sentence (6 code points or more) that occurs
\* at no earlier position.
FirstOccurrence(text, i) ==
   /\ Len(Segments(text)[i]) >= 6
   /\ \A j \in 1..(i - 1) : Segments(text)[j] # Segments(text)[i]

\* The members of a finite set of numbers in increasing order.
RECURSIVE Ascending(_)
Ascending(S) ==
   IF S = {} THEN <<>>
   ELSE LET m == CHOOSE x \in S : \A y \in S : x <= y
        IN  <<m>> \o Ascending(S \ {m})

\* The sentences deduplicate_content is specified to keep.
SurvivingSentences(text) ==
   LET kept == Ascending({i \in 1..Len(Segments(text)) : FirstOccurrence(text, i)})
   IN  [k \in 1..Len(kept) |-> Segments(text)[kept[k]]]

\* The sentences of an output: its pieces up to the trailing terminator.
OutputSentences(out) ==
   IF out = <<>> THEN <<>>
   ELSE SubSeq(Split(out, FULL_STOP), 1, Len(Split(out, FULL_STOP)) - 1)

\* C7: deduplicate_content returns the trimmed segments of length at least
\* 6, each at its first occurrence only and in input order, joined by the
\* terminator and followed by one terminator when a segment survives; so no
\* sentence occurs twice in the output and none is shorter than 6.
C7_DeduplicateContent ==
   fn_pc # "start" =>
      /\ OutputSentences(ret) = SurvivingSentences(arg)
      /\ (ret # <<>>) = (SurvivingSentences(arg) # <<>>)
      /\ ret # <<>> => ret[Len(ret)] = FULL_STOP
      /\ \A i, j \in 1..Len(OutputSentences(ret)) :
            i # j => OutputSentences(ret)[i] # OutputSentences(ret)[j]
      /\ \A i \in 1..Len(OutputSentences(ret)) : Len(OutputSentences(ret)[i]) >= 6

\* A text with a sentence repeated verbatim and a segment of 1 to 5 code
\* points has been de-duplicated to a non-empty result.
C7_Witness ==
   /\ fn_pc = "once"
   /\ ret # <<>>
   /\ \E i, j \in 1..Len(Segments(arg)) :
         i < j /\ Segments(arg)[i] = Segments(arg)[j] /\ Len(Segments(arg)[i]) >= 6
   /\ \E k \in 1..Len(Segments(arg)) :
         Len(Segments(arg)[k]) > 0 /\ Len(Segments(arg)[k]) < 6

(***************************************************************************)
(* One call of SCPValidator.validate on a record.                          *)
(***************************************************************************)
\* A field of an input record: absent, present and empty, or present.
FieldChoices(k) ==
   {<<>>, <<<<k, StrVal(<<>>)>>>>, <<<<k, StrVal(<<"x">>)>>>>}

\* A 'validation_issues' field a page label left in the record, or none.
StaleIssues ==
   {<<>>, <<<<K_validation_issues, StrVal(<<"o", "l", "d">>)>>>>}

RecordInputs ==
   {a \o s \o b \o c \o d :
       a \in FieldChoices(K_id), s \in StaleIssues, b \in FieldChoices(K_class),
       c \in FieldChoices(K_containment), d \in FieldChoices(K_description)}

InitValidate ==
   /\ arg \in RecordInputs
   /\ ret = <<>>
   /\ ret2 = <<>>
   /\ fn_pc = "start"
   /\ ParseIdle
   /\ BatchIdle

CallValidate ==
   /\ fn_pc = "start"
   /\ ret' = validate(arg)
   /\ fn_pc' = "once"
   /\ UNCHANGED <<arg, ret2, parse_vars, batch_vars>>

CallValidateAgain ==
   /\ fn_pc = "once"
   /\ ret2' = validate(ret)
   /\ fn_pc' = "twice"
   /\ UNCHANGED <<arg, ret, parse_vars, batch_vars>>

NextValidate ==
   \/ CallValidate
   \/ CallValidateAgain

SpecValidate ==
   InitValidate /\ [][NextValidate]_vars

\* The record has field k with a non-empty value.
FieldSet(d, k) ==
   \E i \in 1..Len(d) : d[i][1] = k /\ Truthy(d[i][2])

RecommendedSet ==
   {K_class, K_containment, K_description}

\* validate wrote a list of issues under 'validation_issues'.
IssuesAttached(before, after) ==
   \E j \in 1..Len(after) :
      /\ after[j][1] = K_validation_issues
      /\ DOMAIN after[j][2] = {"list"}
      /\ \A i \in 1..Len(before) : before[i] # after[j]

\* The issues validate attached.
AttachedIssues(after) ==
   after[CHOOSE j \in 1..Len(after) : after[j][1] = K_validation_issues][2].list

\* C8: validate leaves every field other than 'validation_issues' as it
\* was; it attaches 'validation_issues' exactly when 'id' or a recommended
\* field is missing or empty (otherwise the record is returned unchanged);
\* the recommended-field issue names exactly the missing fields.
C8_Validate ==
   fn_pc # "start" =>
      /\ \A i \in 1..Len(arg) :
            arg[i][1] # K_validation_issues => \E j \in 1..Len(ret) : ret[j] = arg[i]
      /\ \A j \in 1..Len(ret) :
            ret[j][1] # K_validation_issues => \E i \in 1..Len(arg) : arg[i] = ret[j]
      /\ IssuesAttached(arg, ret) =
            (~FieldSet(arg, K_id) \/ \E f \in RecommendedSet : ~FieldSet(arg, f))
      /\ ~IssuesAttached(arg, ret) => ret = arg
      /\ (IssuesAttached(arg, ret) /\ ~FieldSet(arg, K_id)) =>
            \E n \in 1..Len(AttachedIssues(ret)) :
               AttachedIssues(ret)[n] = MSG_REQUIRED \o K_id
      /\ (IssuesAttached(arg, ret) /\ \E f \in RecommendedSet : ~FieldSet(arg, f)) =>
            \E n \in 1..Len(AttachedIssues(ret)) :
               /\ StartsWith(AttachedIssues(ret)[n], MSG_RECOMMENDED)
               /\ \A f \in RecommendedSet :
                     Contains(AttachedIssues(ret)[n], f) = ~FieldSet(arg, f)

\* A record with only 'id' set has been validated, and the issue attached
\* names the three recommended fields.
C8_Witness ==
   /\ fn_pc = "once"
   /\ arg = <<<<K_id, StrVal(<<"x">>)>>>>
   /\ IssuesAttached(arg, ret)
   /\ \A f \in RecommendedSet : Contains(AttachedIssues(ret)[1], f)

(***************************************************************************)
(* One run of parse_page_content, one block per step.                      *)
(***************************************************************************)
MaxBlocks ==
   3

\* <p>more text</p>
BlockText ==
   [text |-> <<"m", "o", "r", "e", " ", "t", "e", "x", "t">>,
    has_strong |-> FALSE, strong |-> <<>>]

\* <p>: a <<laquo>> b</p>: starts with a colon, holds a marker glyph inside.
BlockColonText ==
   [text |-> <<":", " ", "a", " ", LAQUO, " ", "b">>,
    has_strong |-> FALSE, strong |-> <<>>]

\* <p>  </p>
BlockBlank ==
   [text |-> <<" ", "\n">>, has_strong |-> FALSE, strong |-> <<>>]

\* <p><strong>Item #:</strong> 49-J</p>
BlockItemNumber ==
   [text |-> <<"I", "t", "e", "m", " ", "#", ":", " ", "4", "9", "-", "J">>,
    has_strong |-> TRUE, strong |-> <<"I", "t", "e", "m", " ", "#", ":">>]

\* <p><strong>miao-shu</strong></p> ("description", nothing after the label)
BlockDescription ==
   [text |-> <<"u63CF", "u8FF0">>,
    has_strong |-> TRUE, strong |-> <<"u63CF", "u8FF0">>]

\* <p><strong></strong>note</p>
BlockEmptyLabel ==
   [text |-> <<"n", "o", "t", "e">>, has_strong |-> TRUE, strong |-> <<>>]

\* <div><<laquo>> SCP-048</div>: the navigation footer.
BlockFooter ==
   [text |-> <<LAQUO, " ", "S", "C", "P", "-", "0", "4", "8">>,
    has_strong |-> FALSE, strong |-> <<>>]

PageBlocks ==
   {BlockText, BlockColonText, BlockBlank, BlockItemNumber, BlockDescription,
    BlockEmptyLabel, BlockFooter}

\* scp_id and url of a run: no URL; the URL of the item; a URL without the
\* scp-<digits> token.
IdUrlInputs ==
   { <<7, <<>>>>,
     <<49, <<"h", "t", "t", "p", ":", "/", "/", "h", "/", "s", "c", "p", "-", "0", "4", "9">>>>,
     <<1234, <<"h", "t", "t", "p", ":", "/", "/", "h", "/", "x">>>> }

InitParse ==
   /\ elements \in SeqsUpTo(PageBlocks, MaxBlocks)
   /\ \E input \in IdUrlInputs : scp_id = input[1] /\ url = input[2]
   /\ idx = 1
   /\ result = <<>>
   /\ current_key = <<>>
   /\ current_value = <<>>
   /\ parse_pc = "loop"
   /\ parsed = <<>>
   /\ FnIdle
   /\ BatchIdle

Cursor ==
   [result |-> result, current_key |-> current_key, current_value |-> current_value]

InLoop ==
   parse_pc = "loop" /\ idx <= Len(elements)

\* lines 201-202: continue
SkipEmptyBlock ==
   /\ InLoop
   /\ BlockKind(elements[idx]) = "empty"
   /\ idx' = idx + 1
   /\ UNCHANGED <<elements, scp_id, url, result, current_key, current_value,
                  parse_pc, parsed, fn_vars, batch_vars>>

\* lines 205-207: break, then lines 232-236
StopAtMarker ==
   /\ InLoop
   /\ BlockKind(elements[idx]) = "stop"
   /\ result' = FlushField(Cursor)
   /\ parse_pc' = "flushed"
   /\ UNCHANGED <<elements, scp_id, url, idx, current_key, current_value,
                  parsed, fn_vars, batch_vars>>

\* lines 212-223
LabelledBlock ==
   /\ InLoop
   /\ BlockKind(elements[idx]) = "labelled"
   /\ LET next == LabelledStep(Cursor, elements[idx])
      IN  /\ result' = next.result
          /\ current_key' = next.current_key
          /\ current_value' = next.current_value
   /\ idx' = idx + 1
   /\ UNCHANGED <<elements, scp_id, url, parse_pc, parsed, fn_vars, batch_vars>>

\* lines 224-229
UnlabelledBlock ==
   /\ InLoop
   /\ BlockKind(elements[idx]) = "unlabelled"
   /\ LET next == UnlabelledStep(Cursor, elements[idx])
      IN  /\ result' = next.result
          /\ current_key' = next.current_key
          /\ current_value' = next.current_value
   /\ idx' = idx + 1
   /\ UNCHANGED <<elements, scp_id, url, parse_pc, parsed, fn_vars, batch_vars>>

\* The loop runs out of blocks, then lines 232-236.
EndOfBlocks ==
   /\ parse_pc = "loop"
   /\ idx > Len(elements)
   /\ result' = FlushField(Cursor)
   /\ parse_pc' = "flushed"
   /\ UNCHANGED <<elements, scp_id, url, idx, current_key, current_value,
                  parsed, fn_vars, batch_vars>>

\* lines 238-244
ReturnRecord ==
   /\ parse_pc = "flushed"
   /\ parsed' = PostProcess(result, scp_id, url)
   /\ parse_pc' = "done"
   /\ UNCHANGED <<elements, scp_id, url, idx, result, current_key,
                  current_value, fn_vars, batch_vars>>

NextParse ==
   \/ SkipEmptyBlock
   \/ StopAtMarker
   \/ LabelledBlock
   \/ UnlabelledBlock
   \/ EndOfBlocks
   \/ ReturnRecord

SpecParse ==
   InitParse /\ [][NextParse]_vars

\* The value is "SCP-" followed by a number of three or more digits (a
\* number below 1000 zero-padded to three).
WellFormedId(v) ==
   /\ IsStr(v)
   /\ StartsWith(v.str, SCP_PREFIX)
   /\ Len(v.str) >= Len(SCP_PREFIX) + 3
   /\ \A i \in (Len(SCP_PREFIX) + 1)..Len(v.str) : IsDigit(v.str[i])

\* C3: the record parse_page_content returns has an 'id' that is present,
\* non-empty and of the form "SCP-" plus a zero-padded 3-digit number,
\* whichever origin supplied it (page field, URL token, numeric identifier).
C3_IdWellFormed ==
   parse_pc = "done" => (DictHas(parsed, K_id) /\ WellFormedId(DictGet(parsed, K_id)))

(***************************************************************************)
(* The cursor machine, stated over the blocks consumed so far.             *)
(***************************************************************************)
\* The loop has consumed blocks 1..Consumed.
Consumed ==
   idx - 1

NonEmptyBlock(i) ==
   Strip(elements[i].text) # <<>>

\* The consumed blocks that carry a label: each starts a field.
Labels ==
   {i \in 1..Consumed : NonEmptyBlock(i) /\ elements[i].has_strong}

\* The unlabelled non-empty blocks between label i and the next label.
Continuations(i) ==
   {j \in (i + 1)..Consumed :
       /\ NonEmptyBlock(j)
       /\ \A l \in Labels : ~(i < l /\ l <= j)}

FieldLabel(i) ==
   Strip(elements[i].strong)

FieldRest(i) ==
   Strip(DropFirst(Strip(elements[i].text), Len(FieldLabel(i))))

\* The text of field i: the rest of its block and its continuations, the
\* non-empty pieces separated by single spaces.
FieldText(i) ==
   LET conts == Ascending(Continuations(i))
   IN  Join((IF FieldRest(i) # <<>> THEN <<FieldRest(i)>> ELSE <<>>)
               \o [k \in 1..Len(conts) |-> Strip(elements[conts[k]].text)],
            <<" ">>)

LastLabel ==
   CHOOSE i \in Labels : \A l \in Labels : l <= i

\* The fields already flushed: all of them once the loop is over, all but
\* the open one while it runs.
Flushed ==
   IF parse_pc = "loop" /\ Labels # {} THEN Labels \ {LastLabel} ELSE Labels

\* The flushed fields with a non-empty normalized key and sanitized value.
Stored ==
   {i \in Flushed :
       normalize_key(FieldLabel(i)) # <<>> /\ clean_value(FieldText(i)) # <<>>}

\* The last stored field of key k.
LastStored(k) ==
   CHOOSE i \in Stored :
      /\ normalize_key(FieldLabel(i)) = k
      /\ \A l \in Stored : normalize_key(FieldLabel(l)) = k => l <= i

\* C10: parse_page_content is the two-state cursor machine: blocks before
\* the first label are discarded, a labelled block flushes the open field
\* and opens a new one with its label and the rest of its text, later
\* unlabelled blocks are appended with a single space separator, the field
\* open at the end is flushed, and a flush stores the field exactly when its
\* normalized key and sanitized value are both non-empty, so that a stored
\* field is only ever replaced by a later field of the same key.
C10_CursorMachine ==
   parse_pc \in {"loop", "flushed", "done"} =>
      /\ Keys(result) = {normalize_key(FieldLabel(i)) : i \in Stored}
      /\ Len(result) = Cardinality(Keys(result))
      /\ \A k \in Keys(result) :
            DictGet(result, k) = StrVal(clean_value(FieldText(LastStored(k))))
      /\ (parse_pc = "loop" /\ Labels = {}) =>
            (current_key = <<>> /\ current_value = <<>>)
      /\ (parse_pc = "loop" /\ Labels # {}) =>
            /\ current_key = FieldLabel(LastLabel)
            /\ current_key # <<>> => current_value = FieldText(LastLabel)

\* A run that opened a field with a non-empty rest, appended a continuation
\* to it with one space, flushed it at the next label, and flushed that
\* field, whose value is empty, at the end without storing it.
C10_Witness ==
   /\ parse_pc = "flushed"
   /\ Len(elements) = 3
   /\ Labels = {1, 3}
   /\ FieldRest(1) # <<>>
   /\ Continuations(1) = {2}
   /\ normalize_key(FieldLabel(3)) # <<>>
   /\ Stored = {1}
   /\ DictGet(result, normalize_key(FieldLabel(1))).str
         = FieldRest(1) \o <<" ">> \o Strip(elements[2].text)

(***************************************************************************)
(* temp_scraper.py: series number, listing page, name lookup.              *)
(***************************************************************************)
SeriesSize ==
   1000

MaxSeries ==
   9

Min(a, b) ==
   IF a <= b THEN a ELSE b

Max(a, b) ==
   IF a >= b THEN a ELSE b

get_series_number(_id) ==
   Max(1, Min((_id \div SeriesSize) + 1, MaxSeries))

harmonize_id(_id) ==
   ZFill(Str(_id), 3)

base_url ==
   <<"h", "t", "t", "p", ":", "/", "/", "s", "c", "p", "-", "w", "i", "k", "i", "-",
     "c", "n", ".", "w", "i", "k", "i", "d", "o", "t", ".", "c", "o", "m", "/",
     "s", "c", "p", "-">>

NAME_SEP ==
   <<" ", "-", " ">>

\* What fetch_series_page returns.  b"" is EmptyBytes; any other content is
\* the listing as BeautifulSoup shows it: its links (href, text) and the
\* lines of its text.
EmptyBytes ==
   [empty |-> TRUE, links |-> <<>>, lines |-> <<>>]

\* Series 1 lists SCP-999 with the name inside the link, and not SCP-998.
ListingOne ==
   [empty |-> FALSE,
    links |-> << [href |-> <<"/", "s", "c", "p", "-", "9", "9", "9">>,
                  text |-> <<"S", "C", "P", "-", "9", "9", "9", " ", "-", " ",
                             "T", "i", "c", "k", "l", "e">>] >>,
    lines |-> << <<"S", "C", "P", "-", "9", "9", "9", " ", "-", " ",
                   "T", "i", "c", "k", "l", "e">> >>]

\* Series 2 lists SCP-1000 with the name after the link, and no later item.
ListingTwo ==
   [empty |-> FALSE,
    links |-> << [href |-> <<"/", "s", "c", "p", "-", "1", "0", "0", "0">>,
                  text |-> <<"S", "C", "P", "-", "1", "0", "0", "0">>] >>,
    lines |-> << <<"S", "C", "P", "-", "1", "0", "0", "0", " ", "-", " ",
                   "B", "i", "g", "f", "o", "o", "t", " ", "u00B7", "x">> >>]

\* The listing page the site serves for a series.
ListingPage(series_number) ==
   IF series_number = 1 THEN ListingOne ELSE ListingTwo

\* s.split(sep, 1)[1] for a text that contains sep.
AfterFirst(s, sep) ==
   LET k == CHOOSE i \in 0..(Len(s) - Len(sep)) :
               /\ SubSeq(s, i + 1, i + Len(sep)) = sep
               /\ \A j \in 0..(i - 1) : SubSeq(s, j + 1, j + Len(sep)) # sep
   IN  DropFirst(s, k + Len(sep))

\* RE_CLEAN_NAME.sub('', s): cut from the first middle dot or bullet.
CleanName(s) ==
   IF \E i \in 1..Len(s) : s[i] \in {"u00B7", "u2022"}
   THEN LET k == CHOOSE i \in 1..Len(s) :
                    /\ s[i] \in {"u00B7", "u2022"}
                    /\ \A j \in 1..(i - 1) : s[j] \notin {"u00B7", "u2022"}
        IN  SubSeq(s, 1, k - 1)
   ELSE s

\* lines 255-262: the first link to the item whose text holds the separator.
LinkMatches(link, _id) ==
   /\ Contains(link.href, SCP_TOKEN \o harmonize_id(_id))
   /\ Contains(Strip(link.text), NAME_SEP)

\* lines 267-275: a line that names the item and yields a non-empty name.
LineMatches(line, _id) ==
   /\ Contains(line, SCP_PREFIX \o harmonize_id(_id))
   /\ Contains(line, NAME_SEP)
   /\ Strip(CleanName(Strip(AfterFirst(line, NAME_SEP)))) # <<>>

\* get_scp_name_from_series after fetch_series_page has returned: page is
\* the content, soup_raises says that parsing it raises (the except branch).
NameFromContent(page, _id, soup_raises) ==
   IF page.empty THEN <<>>
   ELSE IF soup_raises THEN <<>>
   ELSE IF \E n \in 1..Len(page.links) : LinkMatches(page.links[n], _id)
   THEN LET link == page.links[CHOOSE n \in 1..Len(page.links) :
                       /\ LinkMatches(page.links[n], _id)
                       /\ \A m \in 1..(n - 1) : ~LinkMatches(page.links[m], _id)]
        IN  Strip(AfterFirst(Strip(link.text), NAME_SEP))
   ELSE IF \E n \in 1..Len(page.lines) : LineMatches(page.lines[n], _id)
   THEN LET line == page.lines[CHOOSE n \in 1..Len(page.lines) :
                       /\ LineMatches(page.lines[n], _id)
                       /\ \A m \in 1..(n - 1) : ~LineMatches(page.lines[m], _id)]
        IN  Strip(CleanName(Strip(AfterFirst(line, NAME_SEP))))
   ELSE <<>>

(***************************************************************************)
(* temp_scraper.py: scrape_scp from the document request on.  A document   *)
(* is [has_content, elements, images, tags]: whether the tree has          *)
(* div#page-content, the p/div/blockquote elements inside it, and what     *)
(* extract_images_from_soup and extract_tags_from_soup return for it.      *)
(***************************************************************************)
MSG_REQUEST_FAILED ==
   <<"u8BF7", "u6C42", "u5931", "u8D25", ":", " ">>

MSG_NO_CONTENT ==
   <<"u672A", "u627E", "u5230", "u9875", "u9762", "u5185", "u5BB9">>

MSG_WARNING ==
   <<"u672A", "u80FD", "u63D0", "u53D6", "u5230", "u6807", "u51C6", "S", "C", "P",
     "u5B57", "u6BB5">>

\* str(e) of the request's exception.
ErrText ==
   <<"t", "i", "m", "e", "o", "u", "t">>

\* lines 354-357: every key is 'error' (true of the empty dict too).
NoValidFields(result_dict) ==
   \A k \in Keys(result_dict) : k = K_error

\* No value of a record is a dict, so a 'more_info' entry is left alone.
affix_additional(results) ==
   results

\* lines 301-315: series, name and fallback id.
InitialRecord(id, name) ==
   LET withSeries == <<<<K_series, IntVal(get_series_number(id))>>>>
       withName   == IF name # <<>>
                     THEN DictSet(withSeries, K_name, StrVal(name))
                     ELSE withSeries
   IN  DictSet(withName, K_id, StrVal(FormatId(id)))

\* lines 334-364, for a document whose content region was found.
RecordOf(id, name, doc) ==
   LET merged     == DictUpdate(InitialRecord(id, name),
                                parse_page_content(doc.elements, id,
                                                   base_url \o harmonize_id(id)))
       withImages == IF doc.images # <<>>
                     THEN DictSet(merged, K_images, ListVal(doc.images))
                     ELSE merged
       withTags   == IF doc.tags # <<>>
                     THEN DictSet(withImages, K_tags, ListVal(doc.tags))
                     ELSE withImages
       warned     == IF NoValidFields(withTags)
                     THEN DictSet(withTags, K_warning, StrVal(MSG_WARNING))
                     ELSE withTags
   IN  validate(affix_additional(warned))

\* The answers to the document request: a requests.RequestException, any
\* other exception out of the request or out of BeautifulSoup, or a document.
RequestFailed ==
   [kind |-> "request_failed"]

Crashed ==
   [kind |-> "crashed"]

Document(doc) ==
   [kind |-> "document", doc |-> doc]

\* What the future of scrape_scp(id) holds in the end.
Raised ==
   [state |-> "raised"]

Returned(data) ==
   [state |-> "returned", data |-> data]

Running ==
   [state |-> "running"]

scrape_scp(id, name, answer) ==
   IF answer.kind = "request_failed"
   THEN Returned(<<<<K_error, StrVal(MSG_REQUEST_FAILED \o ErrText)>>>>)
   ELSE IF answer.kind = "crashed"
   THEN Raised
   ELSE IF ~answer.doc.has_content
   THEN Returned(<<<<K_error, StrVal(MSG_NO_CONTENT)>>>>)
   ELSE Returned(RecordOf(id, name, answer.doc))

(***************************************************************************)
(* The batch: a ThreadPoolExecutor of max_workers threads runs             *)
(* scrape_scp(i) for every i of start_id..end_id; the main thread drains   *)
(* the futures as they complete.                                           *)
(***************************************************************************)
MaxIds ==
   2

MaxWorkers ==
   2

\* A run starts two items before the end of series 1: its first two tasks
\* are of one series, the third one is of the next.
FirstId ==
   SeriesSize - 2

\* <p><strong>Error:</strong> x</p>
BlockErrorLabel ==
   [text |-> <<"E", "r", "r", "o", "r", ":", " ", "x">>,
    has_strong |-> TRUE, strong |-> <<"E", "r", "r", "o", "r", ":">>]

\* <p><strong>xiang-mu deng-ji:</strong>Safe</p> ("object class")
BlockClass ==
   [text |-> <<"u9879", "u76EE", "u7B49", "u7EA7", "uFF1A", "S", "a", "f", "e">>,
    has_strong |-> TRUE, strong |-> <<"u9879", "u76EE", "u7B49", "u7EA7", "uFF1A">>]

\* A document without div#page-content.
DocNoContent ==
   [has_content |-> FALSE, elements |-> <<>>, images |-> <<>>, tags |-> <<>>]

\* A content region with text and no emphasized label.
DocNoFields ==
   [has_content |-> TRUE, elements |-> <<BlockText>>, images |-> <<>>, tags |-> <<>>]

\* An item page with its object class, an image and a tag.
DocItem ==
   [has_content |-> TRUE,
    elements |-> <<BlockClass>>,
    images |-> << <<"/", "a", ".", "p", "n", "g">> >>,
    tags |-> << <<"m", "o", "l", "d">> >>]

\* An item page one of whose emphasized labels is "Error:".
DocErrorLabel ==
   [has_content |-> TRUE, elements |-> <<BlockErrorLabel>>, images |-> <<>>, tags |-> <<>>]

Documents ==
   {DocNoContent, DocNoFields, DocItem, DocErrorLabel}

Answers ==
   {RequestFailed, Crashed} \cup {Document(doc) : doc \in Documents}

\* Every identifier a run may cover.
AllIds ==
   FirstId..(FirstId + MaxIds - 1)

\* What fetch_series_page(g) may return.
Pages(g) ==
   {EmptyBytes, ListingPage(g)}

\* get_scp_name_from_series, computed once for every identifier, content
\* and parser outcome.
NameOf ==
   [i \in AllIds |->
      [page \in Pages(get_series_number(i)) |->
         [soup_raises \in BOOLEAN |-> NameFromContent(page, i, soup_raises)]]]

Names(i) ==
   {NameOf[i][page][soup_raises] :
       page \in Pages(get_series_number(i)), soup_raises \in BOOLEAN}

\* scrape_scp from line 309 on, computed once for every identifier, name
\* and answer.
OutcomeOf ==
   [i \in AllIds |->
      [name \in Names(i) |->
         [answer \in Answers |-> scrape_scp(i, name, answer)]]]

Tasks ==
   start_id..end_id

\* The tasks a worker thread is running.
Busy ==
   {i \in Tasks : task_pc[i] \in {"fetching", "scraping"}}

\* The work queue is first-in first-out and the tasks were submitted in
\* ascending order: an idle thread takes the lowest queued identifier.
NextQueued(i) ==
   /\ task_pc[i] = "queued"
   /\ \A j \in Tasks : task_pc[j] = "queued" => i <= j
   /\ Cardinality(Busy) < max_workers

Init ==
   /\ start_id = FirstId
   /\ end_id \in start_id..(start_id + MaxIds - 1)
   /\ max_workers \in 1..MaxWorkers
   /\ task_pc = [i \in start_id..end_id |-> "queued"]
   /\ series_cache = <<>>
   /\ fetches = [g \in {get_series_number(i) : i \in start_id..end_id} |-> 0]
   /\ content = [i \in start_id..end_id |-> EmptyBytes]
   /\ scp_name = [i \in start_id..end_id |-> <<>>]
   /\ response = [i \in start_id..end_id |-> Running]
   /\ future = [i \in start_id..end_id |-> Running]
   /\ pending = start_id..end_id
   /\ db = <<>>
   /\ failed_ids = <<>>
   /\ main_pc = "draining"
   /\ FnIdle
   /\ ParseIdle

\* lru_cache: the result is stored under the key unless the key was added
\* while the call ran, in which case the stored entry stays.
CacheStore(cache, key, value) ==
   IF key \in DOMAIN cache THEN cache
   ELSE [k \in (DOMAIN cache) \cup {key} |-> IF k = key THEN value ELSE cache[k]]

\* A worker starts scrape_scp(i); fetch_series_page finds the series in the
\* cache, and the name lookup runs on the cached content.
StartTaskCached(i) ==
   /\ NextQueued(i)
   /\ get_series_number(i) \in DOMAIN series_cache
   /\ \E soup_raises \in BOOLEAN :
         /\ content' = [content EXCEPT ![i] = series_cache[get_series_number(i)]]
         /\ scp_name' = [scp_name EXCEPT ![i] =
               NameOf[i][series_cache[get_series_number(i)]][soup_raises]]
   /\ task_pc' = [task_pc EXCEPT ![i] = "scraping"]
   /\ UNCHANGED <<start_id, end_id, max_workers, series_cache, fetches, response,
                  future, pending, db, failed_ids, main_pc, fn_vars, parse_vars>>

\* A worker starts scrape_scp(i); the cache misses and the call of
\* fetch_series_page begins its request.
StartTaskUncached(i) ==
   /\ NextQueued(i)
   /\ get_series_number(i) \notin DOMAIN series_cache
   /\ task_pc' = [task_pc EXCEPT ![i] = "fetching"]
   /\ UNCHANGED <<start_id, end_id, max_workers, series_cache, fetches, content,
                  scp_name, response, future, pending, db, failed_ids, main_pc,
                  fn_vars, parse_vars>>

\* The listing request of task i ends (lines 172-178): the content, or b""
\* when it failed; lru_cache stores the result; the name lookup runs on it.
FetchSeriesPage(i) ==
   /\ task_pc[i] = "fetching"
   /\ \E page \in Pages(get_series_number(i)), soup_raises \in BOOLEAN :
         /\ series_cache' = CacheStore(series_cache, get_series_number(i), page)
         /\ content' = [content EXCEPT ![i] = page]
         /\ scp_name' = [scp_name EXCEPT ![i] = NameOf[i][page][soup_raises]]
   /\ fetches' = [fetches EXCEPT ![get_series_number(i)] = @ + 1]
   /\ task_pc' = [task_pc EXCEPT ![i] = "scraping"]
   /\ UNCHANGED <<start_id, end_id, max_workers, response, future, pending, db,
                  failed_ids, main_pc, fn_vars, parse_vars>>

\* The rest of scrape_scp(i), lines 309-364: the document request is
\* answered and the future completes; the locals of the call are gone.
ScrapeDocument(i) ==
   /\ task_pc[i] = "scraping"
   /\ \E answer \in Answers :
         /\ response' = [response EXCEPT ![i] = answer]
         /\ future' = [future EXCEPT ![i] = OutcomeOf[i][scp_name[i]][answer]]
   /\ content' = [content EXCEPT ![i] = EmptyBytes]
   /\ scp_name' = [scp_name EXCEPT ![i] = <<>>]
   /\ task_pc' = [task_pc EXCEPT ![i] = "done"]
   /\ UNCHANGED <<start_id, end_id, max_workers, series_cache, fetches, pending,
                  db, failed_ids, main_pc, fn_vars, parse_vars>>

\* The success test without the look for an 'error' key.
IsSuccessAnyRecord(data) ==
   data # <<>>

\* line 387: data and 'error' not in data
IsSuccess(data) ==
   data # <<>> /\ ~DictHas(data, K_error)

\* lines 384-392: as_completed yields a future that returned.
DrainReturned(i) ==
   /\ main_pc = "draining"
   /\ i \in pending
   /\ future[i].state = "returned"
   /\ IF IsSuccess(future[i].data)
      THEN /\ db' = DictSet(db, Str(i), future[i].data)
           /\ UNCHANGED failed_ids
      ELSE /\ failed_ids' = Append(failed_ids, i)
           /\ UNCHANGED db
   /\ pending' = pending \ {i}
   /\ UNCHANGED <<start_id, end_id, max_workers, task_pc, series_cache, fetches,
                  content, scp_name, response, future, main_pc, fn_vars, parse_vars>>

\* lines 384-386 and 393-395: as_completed yields a future that raised.
DrainRaised(i) ==
   /\ main_pc = "draining"
   /\ i \in pending
   /\ future[i].state = "raised"
   /\ failed_ids' = Append(failed_ids, i)
   /\ pending' = pending \ {i}
   /\ UNCHANGED <<start_id, end_id, max_workers, task_pc, series_cache, fetches,
                  content, scp_name, response, future, db, main_pc, fn_vars,
                  parse_vars>>

\* as_completed is exhausted: the loop and the with block end.
FinishBatch ==
   /\ main_pc = "draining"
   /\ pending = {}
   /\ main_pc' = "done"
   /\ UNCHANGED <<start_id, end_id, max_workers, task_pc, series_cache, fetches,
                  content, scp_name, response, future, pending, db, failed_ids,
                  fn_vars, parse_vars>>

Next ==
   \/ \E i \in Tasks : StartTaskCached(i)
   \/ \E i \in Tasks : StartTaskUncached(i)
   \/ \E i \in Tasks : FetchSeriesPage(i)
   \/ \E i \in Tasks : ScrapeDocument(i)
   \/ \E i \in Tasks : DrainReturned(i)
   \/ \E i \in Tasks : DrainRaised(i)
   \/ FinishBatch

Spec ==
   Init /\ [][Next]_vars

\* Every request ends (timeout=10) and the threads keep running: a step
\* that stays possible is taken.
FairSpec ==
   Spec /\ WF_vars(Next)

(***************************************************************************)
(* Properties of the batch.                                                *)
(***************************************************************************)

\* C1: for every grouping number g, the listing page of g is requested at
\* most once in a run, also when several tasks make their first call of
\* fetch_series_page(g) before any of them has returned.
C1_ExactlyOneFetch ==
   \A g \in DOMAIN fetches : fetches[g] <= 1

InDb(i) ==
   DictHas(db, Str(i))

InFailed(i) ==
   \E k \in DOMAIN failed_ids : failed_ids[k] = i

ReturnedRecord(i) ==
   /\ future[i].state = "returned"
   /\ future[i].data # <<>>
   /\ ~DictHas(future[i].data, K_error)

ReturnedError(i) ==
   /\ future[i].state = "returned"
   /\ DictHas(future[i].data, K_error)

Partitioned ==
   /\ pending = {}
   /\ \A i \in Tasks :
         /\ InDb(i) # InFailed(i)
         /\ InDb(i) <=> ReturnedRecord(i)
         /\ InDb(i) => DictGet(db, Str(i)) = future[i].data
         /\ (ReturnedError(i) \/ future[i].state = "raised") => InFailed(i)
   /\ Keys(db) = {Str(i) : i \in Tasks}
                    \ {Str(i) : i \in {j \in Tasks : InFailed(j)}}
   /\ \A k, l \in DOMAIN failed_ids : failed_ids[k] = failed_ids[l] => k = l

\* C2: for every range and worker count and every completion order, the
\* batch loop eventually has drained every task, and from then on every
\* identifier of the range is in exactly one of db (under str(id), with the
\* record its task returned) and failed_ids: in db iff its task returned a
\* non-empty record without 'error', in failed_ids when it returned an error
\* record or raised.
C2_BatchDrains ==
   <>[](main_pc = "done" /\ Partitioned)

\* The batch is over; one task raised, another one is in db.
C2_Witness ==
   /\ main_pc = "done"
   /\ \E i, j \in Tasks :
         /\ future[i].state = "raised"
         /\ InFailed(i)
         /\ InDb(j)

NoFieldStored(page_elements) ==
   FlushField(ParseLoop(page_elements, 1, EmptyCursor)) = <<>>

\* C4: when the document request succeeds and the content region is there
\* and no emphasized label of the page produces a stored field, the record
\* scrape_scp returns has no 'error' key and has a 'warning' key.
C4_WarningWhenNoFields ==
   \A i \in Tasks :
      (/\ task_pc[i] = "done"
       /\ response[i].kind = "document"
       /\ response[i].doc.has_content
       /\ NoFieldStored(response[i].doc.elements))
      => /\ future[i].state = "returned"
         /\ ~DictHas(future[i].data, K_error)
         /\ DictHas(future[i].data, K_warning)

\* C9: the name lookup on a failed listing request gives the empty name,
\* and when the document request then succeeds and the content region is
\* there, scrape_scp returns a record without 'error', without 'name' and
\* with 'series'.
C9_ListingFailureNeverFails ==
   [][\A i \in Tasks :
         (/\ task_pc[i] = "scraping"
          /\ task_pc'[i] = "done"
          /\ content[i] = EmptyBytes
          /\ response'[i].kind = "document"
          /\ response'[i].doc.has_content)
         => /\ scp_name[i] = <<>>
            /\ future'[i].state = "returned"
            /\ ~DictHas(future'[i].data, K_error)
            /\ ~DictHas(future'[i].data, K_name)
            /\ DictHas(future'[i].data, K_series)]_vars

(***************************************************************************)
(* The navigation markers of parse_page_content.                           *)
(***************************************************************************)
\* Block i is not empty and its text starts with one of the two glyphs.
StartsWithMarker(i) ==
   /\ NonEmptyBlock(i)
   /\ Strip(elements[i].text)[1] \in {LAQUO, LSAQUO}

\* The first block that starts with a marker glyph, or one past the end.
FirstMarker ==
   IF \E i \in 1..Len(elements) : StartsWithMarker(i)
   THEN CHOOSE i \in 1..Len(elements) :
           StartsWithMarker(i) /\ \A j \in 1..(i - 1) : ~StartsWithMarker(j)
   ELSE Len(elements) + 1

\* The blocks in front of the first marker block.
BeforeMarker ==
   SubSeq(elements, 1, FirstMarker - 1)

\* C11: the loop consumes exactly the blocks in front of the first non-empty
\* block whose text starts with a marker glyph (a block with a glyph
\* elsewhere in its text is consumed like any other); the marker block and
\* the blocks after it contribute nothing, so the field map and the record
\* are those of the page cut off before the marker block, the field open at
\* that point flushed.
C11_StopAtMarker ==
   /\ \A j \in 1..Consumed : ~StartsWithMarker(j)
   /\ parse_pc \in {"flushed", "done"} =>
         /\ idx = FirstMarker
         /\ result = FlushField(ParseLoop(BeforeMarker, 1, EmptyCursor))
   /\ parse_pc = "done" =>
         parsed = parse_page_content(BeforeMarker, scp_id, url)

\* A run that stopped at a marker block in second place with a block after
\* it, and flushed the field the first block had opened.
C11_Witness ==
   /\ parse_pc = "flushed"
   /\ Len(elements) = 3
   /\ FirstMarker = 2
   /\ NonEmptyBlock(3)
   /\ Labels = {1}
   /\ Stored = {1}
   /\ Keys(result) = {normalize_key(FieldLabel(1))}
   /\ DictGet(result, normalize_key(FieldLabel(1))).str = clean_value(FieldRest(1))

\* C12: every string-valued field of the record parse_page_content returns
\* is non-empty: the rule of the flush survives the id backfill, the
\* deduplication of 'description' and 'containment', the flattening and the
\* re-normalization of the keys.
C12_StringFieldsNonEmpty ==
   parse_pc = "done" =>
      \A n \in 1..Len(parsed) : IsStr(parsed[n][2]) => parsed[n][2].str # <<>>
====
